---- MODULE Spec2Model ----
(***************************************************************************)
(* A model of lpar/config: a Config context that resolves a setting from   *)
(* an ordered list of optional text candidates (src/config.go) and the     *)
(* earlier lazy-loading revision of the same package                       *)
(* (src/unnamed/part_001).                                                 *)
(*                                                                         *)
(* Texts are sequences of one-character strings, so that parsing,          *)
(* trimming and case folding are computed character by character.          *)
(* A float64 is the exact decimal m / 10^e it was parsed from (the binary  *)
(* rounding of float64 is not modelled; the float32 rounding that          *)
(* ResolveInt applies is).  Integers stay far below 2^31, so the 64-bit    *)
(* range error of strconv is out of reach of the modelled inputs.          *)
(***************************************************************************)
EXTENDS Integers, Sequences, FiniteSets, TLC

VARIABLES variant, cfg, fs, last, loads

vars == <<variant, cfg, fs, last, loads>>

\* ------------------------------------------------------------------ bounds

\* longest candidate list handed to a resolver
MaxLen == 3
\* a caller stops calling once Errors holds this many entries
MaxErrors == 2
\* longest list of names handed to Find and FindAndLoad
MaxPaths == 2
\* longest candidate list where the resolvers run among all the other calls
MaxShort == 2

\* ------------------------------------------------------- texts and numbers

Digits == {"0", "1", "2", "3", "4", "5", "6", "7", "8", "9"}

DigitChars == <<"0", "1", "2", "3", "4", "5", "6", "7", "8", "9">>

\* strconv.ParseUint's digit value: letters count from 10, anything else is
\* no digit in any base
DigitVal(ch) ==
    CASE ch = "0" -> 0 [] ch = "1" -> 1 [] ch = "2" -> 2 [] ch = "3" -> 3
      [] ch = "4" -> 4 [] ch = "5" -> 5 [] ch = "6" -> 6 [] ch = "7" -> 7
      [] ch = "8" -> 8 [] ch = "9" -> 9
      [] ch \in {"a", "A"} -> 10 [] ch \in {"b", "B"} -> 11
      [] ch \in {"c", "C"} -> 12 [] ch \in {"d", "D"} -> 13
      [] ch \in {"e", "E"} -> 14 [] ch \in {"f", "F"} -> 15
      [] OTHER -> 99

\* ASCII lower-casing, as strings.EqualFold folds the letters of the model
Lower(ch) ==
    CASE ch = "A" -> "a" [] ch = "B" -> "b" [] ch = "E" -> "e" [] ch = "F" -> "f"
      [] ch = "I" -> "i" [] ch = "L" -> "l" [] ch = "M" -> "m" [] ch = "N" -> "n"
      [] ch = "O" -> "o" [] ch = "R" -> "r" [] ch = "S" -> "s" [] ch = "T" -> "t"
      [] ch = "U" -> "u" [] ch = "X" -> "x" [] ch = "Y" -> "y"
      [] OTHER -> ch

LowerText(s) == [i \in 1..Len(s) |-> Lower(s[i])]

\* strings.EqualFold
EqualFold(s, t) == LowerText(s) = LowerText(t)

WhiteSpace == {" ", "\t", "\n"}

RECURSIVE TrimLeft(_)
TrimLeft(s) ==
    IF s # <<>> /\ Head(s) \in WhiteSpace THEN TrimLeft(Tail(s)) ELSE s

RECURSIVE TrimRight(_)
TrimRight(s) ==
    IF s # <<>> /\ s[Len(s)] \in WhiteSpace
    THEN TrimRight(SubSeq(s, 1, Len(s) - 1))
    ELSE s

\* strings.TrimSpace
TrimSpace(s) == TrimRight(TrimLeft(s))

\* strings.Contains(s, ch) for a one-character needle
Contains(s, ch) == \E i \in 1..Len(s) : s[i] = ch

\* index of the first character of s in set, 0 when there is none
IndexAny(s, set) ==
    IF \E i \in 1..Len(s) : s[i] \in set
    THEN CHOOSE i \in 1..Len(s) : s[i] \in set /\ \A j \in 1..(i - 1) : s[j] \notin set
    ELSE 0

RECURSIVE Pow(_, _)
Pow(b, n) == IF n = 0 THEN 1 ELSE b * Pow(b, n - 1)

Abs(n) == IF n < 0 THEN -n ELSE n

\* the digits of s read in the given base; -1 when a character is no digit
\* of that base (the syntax error of strconv.ParseUint)
RECURSIVE DigitsValue(_, _, _)
DigitsValue(s, base, acc) ==
    IF s = <<>> THEN acc
    ELSE IF DigitVal(Head(s)) >= base THEN -1
    ELSE DigitsValue(Tail(s), base, acc * base + DigitVal(Head(s)))

\* strconv.ParseUint(s, 0, 64): base taken from the prefix
ParseUint(s) ==
    IF s = <<>> THEN [ok |-> FALSE, val |-> 0]
    ELSE LET pre == Len(s) >= 3 /\ Head(s) = "0"
             base == IF Head(s) # "0" THEN 10
                     ELSE IF pre /\ Lower(s[2]) = "b" THEN 2
                     ELSE IF pre /\ Lower(s[2]) = "o" THEN 8
                     ELSE IF pre /\ Lower(s[2]) = "x" THEN 16
                     ELSE 8
             rest == IF Head(s) # "0" THEN s
                     ELSE IF pre /\ Lower(s[2]) \in {"b", "o", "x"}
                          THEN SubSeq(s, 3, Len(s))
                     ELSE Tail(s)
             v == DigitsValue(rest, base, 0)
         IN  IF v < 0 THEN [ok |-> FALSE, val |-> 0] ELSE [ok |-> TRUE, val |-> v]

\* strconv.ParseInt(s, 0, 64): an optional sign, then ParseUint
ParseInt(s) ==
    IF s = <<>> THEN [ok |-> FALSE, val |-> 0]
    ELSE LET neg == Head(s) = "-"
             body == IF Head(s) \in {"+", "-"} THEN Tail(s) ELSE s
             u == ParseUint(body)
         IN  IF ~u.ok THEN [ok |-> FALSE, val |-> 0]
             ELSE [ok |-> TRUE, val |-> IF neg THEN -u.val ELSE u.val]

\* a float64: the decimal m / 10^e, or an infinity or not-a-number
Float(m, e) == [kind |-> "num", m |-> m, e |-> e]

FloatInf(sign) == [kind |-> "inf", m |-> sign, e |-> 0]

FloatNaN == [kind |-> "nan", m |-> 0, e |-> 0]

\* m / 10^e without trailing zeros in the fraction
RECURSIVE Normalize(_, _)
Normalize(m, e) ==
    IF e > 0 /\ m % 10 = 0 THEN Normalize(m \div 10, e - 1) ELSE Float(m, e)

AllDigits(s) == \A i \in 1..Len(s) : s[i] \in Digits

\* strconv.ParseFloat(s, 64): sign, decimal digits with at most one point,
\* an optional decimal exponent; "inf", "infinity" and "nan" in any case.
\* A 0x prefix needs a 'p' exponent, which no modelled text has, so it fails.
ParseFloat(s) ==
    LET fail == [ok |-> FALSE, val |-> Float(0, 0)]
        signed == s # <<>> /\ Head(s) \in {"+", "-"}
        sign == IF s # <<>> /\ Head(s) = "-" THEN -1 ELSE 1
        body == IF signed THEN Tail(s) ELSE s
        low == LowerText(body)
        ePos == IndexAny(body, {"e", "E"})
        mant == IF ePos = 0 THEN body ELSE SubSeq(body, 1, ePos - 1)
        expo == IF ePos = 0 THEN <<>> ELSE SubSeq(body, ePos + 1, Len(body))
        expNeg == expo # <<>> /\ Head(expo) = "-"
        expDigits == IF expo # <<>> /\ Head(expo) \in {"+", "-"} THEN Tail(expo) ELSE expo
        dot == IndexAny(mant, {"."})
        ip == IF dot = 0 THEN mant ELSE SubSeq(mant, 1, dot - 1)
        fp == IF dot = 0 THEN <<>> ELSE SubSeq(mant, dot + 1, Len(mant))
        expVal == IF ePos = 0 THEN 0
                  ELSE IF expNeg THEN -DigitsValue(expDigits, 10, 0)
                  ELSE DigitsValue(expDigits, 10, 0)
        m == sign * DigitsValue(ip \o fp, 10, 0)
        scale == Len(fp) - expVal
    IN  IF low \in {<<"i", "n", "f">>, <<"i", "n", "f", "i", "n", "i", "t", "y">>}
        THEN [ok |-> TRUE, val |-> FloatInf(sign)]
        ELSE IF ~signed /\ low = <<"n", "a", "n">>
        THEN [ok |-> TRUE, val |-> FloatNaN]
        ELSE IF ~AllDigits(ip) \/ ~AllDigits(fp) \/ Len(ip) + Len(fp) = 0 THEN fail
        ELSE IF ePos # 0 /\ (expDigits = <<>> \/ ~AllDigits(expDigits)) THEN fail
        ELSE IF scale >= 0 THEN [ok |-> TRUE, val |-> Normalize(m, scale)]
        ELSE [ok |-> TRUE, val |-> Float(m * Pow(10, -scale), 0)]

\* floor(log2 n) for n >= 1
RECURSIVE Log2(_)
Log2(n) == IF n < 2 THEN 0 ELSE 1 + Log2(n \div 2)

\* int64(float32(f)): f rounded to the nearest float32 (24-bit significand,
\* ties to even), then truncated toward zero.  Below 2^23 the rounding can
\* only matter by carrying the fraction up to the next integer, which happens
\* when 1 - frac is at most half a unit in the last place; from 2^23 on the
\* float32 is an integer multiple of its unit.
Float32ToInt(f) ==
    LET a == Abs(f.m)
        den == Pow(10, f.e)
        q == a \div den
        r == a % den
        k == Log2(q)
        half == IF q = 0 THEN Pow(2, 25) ELSE Pow(2, 24 - k)
        up == r # 0 /\ (den - r) <= den \div half
        unit == Pow(2, k - 23)
        base == (q \div unit) * unit
        twice == 2 * ((q - base) * den + r)
        big == IF twice > unit * den \/ (twice = unit * den /\ (base \div unit) % 2 = 1)
               THEN base + unit ELSE base
        mag == IF q < Pow(2, 23) THEN (IF up THEN q + 1 ELSE q) ELSE big
    IN  IF f.m < 0 THEN -mag ELSE mag

\* the decimal digits of n >= 0
RECURSIVE NatText(_)
NatText(n) ==
    IF n < 10 THEN <<DigitChars[n + 1]>>
    ELSE NatText(n \div 10) \o <<DigitChars[(n % 10) + 1]>>

\* strconv.FormatInt(v, 10) and strconv.Itoa
FormatInt(n) == IF n < 0 THEN <<"-">> \o NatText(-n) ELSE NatText(n)

\* strconv.FormatBool
FormatBool(b) == IF b THEN <<"t", "r", "u", "e">> ELSE <<"f", "a", "l", "s", "e">>

\* n >= 0 in exactly w digits, zero padded on the left
RECURSIVE PadText(_, _)
PadText(n, w) ==
    IF w = 0 THEN <<>> ELSE PadText(n \div 10, w - 1) \o <<DigitChars[(n % 10) + 1]>>

\* strconv.FormatFloat(v, 'f', -1, 64): shortest decimal, no exponent
FormatFloat(f) ==
    IF f.kind = "nan" THEN <<"N", "a", "N">>
    ELSE IF f.kind = "inf"
    THEN (IF f.m < 0 THEN <<"-">> ELSE <<"+">>) \o <<"I", "n", "f">>
    ELSE LET a == Abs(f.m)
             den == Pow(10, f.e)
             sgn == IF f.m < 0 THEN <<"-">> ELSE <<>>
         IN  IF f.e = 0 THEN sgn \o NatText(a)
             ELSE sgn \o NatText(a \div den) \o <<".">> \o PadText(a % den, f.e)

\* --------------------------------------------------------- optional scalars

\* *string: nil, or a pointer to a text
Absent == [present |-> FALSE, text |-> <<>>]

Present(t) == [present |-> TRUE, text |-> t]

\* interface{} values handed to Default and held by the parsed TOML tree
Native(type, v) == [type |-> type, v |-> v]

NativeNil == Native("nil", 0)

\* a value of a type the type switches do not list (a date, an array, a table)
NativeOther == Native("other", 0)

\* ----------------------------------------------------------------- contexts

Ctx == {"A", "B"}

\* c.fileData = nil
NoTree == [loaded |-> FALSE, tree |-> <<>>]

TextTrue == <<"t", "r", "u", "e">>

TextFalse == <<"f", "a", "l", "s", "e">>

\* New(appname): a fresh context
New(appname) ==
    [AppName |-> appname, FileBase |-> "config", Location |-> "RelativeToUser",
     fileData |-> NoTree, loadAttempted |-> FALSE, PrefsFile |-> <<>>,
     Errors |-> <<>>, Warnings |-> <<>>,
     TrueStrings |-> <<TextTrue>>, FalseStrings |-> <<TextFalse>>]

\* the outcome of one call: the value returned, the Errors list it leaves,
\* and the kinds of failure met on the way
Outcome(ret, errs, fail) == [ret |-> ret, errs |-> errs, fail |-> fail]

\* ---------------------------------------------------------------- resolvers

\* ResolveString passing over empty candidates as the other resolvers do
RECURSIVE ResolveStringSkippingEmpty(_, _)
ResolveStringSkippingEmpty(list, errs) ==
    IF list = <<>>
    THEN Outcome(<<>>, Append(errs, "missing default string value"), {"exhaustion"})
    ELSE IF Head(list).present /\ Head(list).text # <<>>
    THEN Outcome(Head(list).text, errs, {})
    ELSE ResolveStringSkippingEmpty(Tail(list), errs)

\* ResolveString: the first non-nil candidate, as it is
RECURSIVE ResolveStringWalk(_, _)
ResolveStringWalk(list, errs) ==
    IF list = <<>>
    THEN Outcome(<<>>, Append(errs, "missing default string value"), {"exhaustion"})
    ELSE IF Head(list).present THEN Outcome(Head(list).text, errs, {})
    ELSE ResolveStringWalk(Tail(list), errs)

\* the parse inside ResolveInt: a text with a point goes through ParseFloat,
\* float32 and int64; any other through ParseInt with base 0.  The lazy
\* revision asks ParseFloat for 32 bits, which is the same float32 here.
TextToInt(t) ==
    IF Contains(t, ".")
    THEN LET p == ParseFloat(t)
         IN  [ok |-> p.ok,
              val |-> IF p.ok /\ p.val.kind = "num" THEN Float32ToInt(p.val) ELSE 0]
    ELSE ParseInt(t)

\* ResolveInt stopping at the first candidate it tries, parseable or not
RECURSIVE ResolveIntStopping(_, _, _)
ResolveIntStopping(list, errs, fail) ==
    IF list = <<>>
    THEN Outcome(0, Append(errs, "missing default int value"), fail \cup {"exhaustion"})
    ELSE IF Head(list).present /\ Head(list).text # <<>>
    THEN LET p == TextToInt(Head(list).text)
         IN  IF ~p.ok
             THEN Outcome(0, Append(errs, "unrecognized numeric value"),
                          fail \cup {"coercion"})
             ELSE Outcome(p.val, errs, fail)
    ELSE ResolveIntStopping(Tail(list), errs, fail)

\* ResolveInt handing the empty text to the parser like any other
RECURSIVE ResolveIntTryingEmpty(_, _, _)
ResolveIntTryingEmpty(list, errs, fail) ==
    IF list = <<>>
    THEN Outcome(0, Append(errs, "missing default int value"), fail \cup {"exhaustion"})
    ELSE IF Head(list).present
    THEN LET p == TextToInt(Head(list).text)
         IN  IF ~p.ok
             THEN ResolveIntTryingEmpty(Tail(list),
                                        Append(errs, "unrecognized numeric value"),
                                        fail \cup {"coercion"})
             ELSE Outcome(p.val, errs, fail)
    ELSE ResolveIntTryingEmpty(Tail(list), errs, fail)

\* ResolveInt: skip nil and empty candidates; an unparseable one adds an
\* error and the loop goes on; the first that parses is returned
RECURSIVE ResolveIntWalk(_, _, _)
ResolveIntWalk(list, errs, fail) ==
    IF list = <<>>
    THEN Outcome(0, Append(errs, "missing default int value"), fail \cup {"exhaustion"})
    ELSE IF Head(list).present /\ Head(list).text # <<>>
    THEN LET p == TextToInt(Head(list).text)
         IN  IF ~p.ok
             THEN ResolveIntWalk(Tail(list), Append(errs, "unrecognized numeric value"),
                                 fail \cup {"coercion"})
             ELSE Outcome(p.val, errs, fail)
    ELSE ResolveIntWalk(Tail(list), errs, fail)

\* ResolveFloat64 returning without a word when nothing is left
RECURSIVE ResolveFloat64Silent(_, _, _)
ResolveFloat64Silent(list, errs, fail) ==
    IF list = <<>> THEN Outcome(Float(0, 0), errs, fail \cup {"exhaustion"})
    ELSE IF Head(list).present /\ Head(list).text # <<>>
    THEN LET p == ParseFloat(Head(list).text)
         IN  IF ~p.ok
             THEN ResolveFloat64Silent(Tail(list),
                                      Append(errs, "unrecognized numeric value"),
                                      fail \cup {"coercion"})
             ELSE Outcome(p.val, errs, fail)
    ELSE ResolveFloat64Silent(Tail(list), errs, fail)

\* ResolveFloat64: the same loop around ParseFloat; its exhaustion error
\* reads "missing default int value" as well
RECURSIVE ResolveFloat64Walk(_, _, _)
ResolveFloat64Walk(list, errs, fail) ==
    IF list = <<>>
    THEN Outcome(Float(0, 0), Append(errs, "missing default int value"),
                 fail \cup {"exhaustion"})
    ELSE IF Head(list).present /\ Head(list).text # <<>>
    THEN LET p == ParseFloat(Head(list).text)
         IN  IF ~p.ok
             THEN ResolveFloat64Walk(Tail(list),
                                     Append(errs, "unrecognized numeric value"),
                                     fail \cup {"coercion"})
             ELSE Outcome(p.val, errs, fail)
    ELSE ResolveFloat64Walk(Tail(list), errs, fail)

\* stringToBool consulting FalseStrings before TrueStrings
stringToBoolFalseFirst(c, bs) ==
    LET tbs == TrimSpace(bs)
    IN  IF \E i \in 1..Len(c.FalseStrings) : EqualFold(tbs, c.FalseStrings[i])
        THEN [value |-> FALSE, ok |-> TRUE]
        ELSE IF \E i \in 1..Len(c.TrueStrings) : EqualFold(tbs, c.TrueStrings[i])
        THEN [value |-> TRUE, ok |-> TRUE]
        ELSE [value |-> FALSE, ok |-> FALSE]

\* stringToBool: trim, then TrueStrings first, then FalseStrings
stringToBool(c, bs) ==
    LET tbs == TrimSpace(bs)
    IN  IF \E i \in 1..Len(c.TrueStrings) : EqualFold(tbs, c.TrueStrings[i])
        THEN [value |-> TRUE, ok |-> TRUE]
        ELSE IF \E i \in 1..Len(c.FalseStrings) : EqualFold(tbs, c.FalseStrings[i])
        THEN [value |-> FALSE, ok |-> TRUE]
        ELSE [value |-> FALSE, ok |-> FALSE]

\* ResolveBool going on to the next candidate after one it does not recognise
RECURSIVE ResolveBoolSkipping(_, _, _)
ResolveBoolSkipping(c, list, errs) ==
    IF list = <<>>
    THEN Outcome(FALSE, Append(errs, "missing default bool value"), {"exhaustion"})
    ELSE IF Head(list).present /\ Head(list).text # <<>>
    THEN LET b == stringToBool(c, Head(list).text)
         IN  IF ~b.ok
             THEN ResolveBoolSkipping(c, Tail(list),
                                      Append(errs, "unrecognized bool value"))
             ELSE Outcome(b.value, errs, {})
    ELSE ResolveBoolSkipping(c, Tail(list), errs)

\* ResolveBool: the first non-nil, non-empty candidate decides, matched or not
RECURSIVE ResolveBoolWalk(_, _, _)
ResolveBoolWalk(c, list, errs) ==
    IF list = <<>>
    THEN Outcome(FALSE, Append(errs, "missing default bool value"), {"exhaustion"})
    ELSE IF Head(list).present /\ Head(list).text # <<>>
    THEN LET b == stringToBool(c, Head(list).text)
         IN  IF ~b.ok
             THEN Outcome(b.value, Append(errs, "unrecognized bool value"), {"coercion"})
             ELSE Outcome(b.value, errs, {})
    ELSE ResolveBoolWalk(c, Tail(list), errs)

\* Default which wraps an int64 as it wraps an int
DefaultWidening(x) ==
    CASE x.type = "bool" -> Present(FormatBool(x.v))
      [] x.type \in {"int", "int64"} -> Present(FormatInt(x.v))
      [] x.type = "string" -> Present(x.v)
      [] OTHER -> Absent

\* Default: a bool, int or string as a candidate; nil for anything else
Default(x) ==
    CASE x.type = "bool" -> Present(FormatBool(x.v))
      [] x.type = "int" -> Present(FormatInt(x.v))
      [] x.type = "string" -> Present(x.v)
      [] OTHER -> Absent

\* -------------------------------------------------------------- file system

\* a path is the sequence of its components; "" is the empty sequence
EmptyPath == <<>>

\* what os.UserHomeDir returns
HomeDir == <<"home">>

\* what os.UserConfigDir returns
ConfigDir == <<"home", ".config">>

\* what os.Executable returns: the path of the running program
ExecutableFile == <<"opt", "app", "prog">>

\* an explicit location a caller may pass to Find and Load
TmpFile == <<"tmp", "test.toml">>

\* filepath.Dir and path.Dir
Dir(p) == IF Len(p) <= 1 THEN <<>> ELSE SubSeq(p, 1, Len(p) - 1)

\* filepath.Join(dir, elems...)
Join(dir, elems) == dir \o elems

\* one entry of a parsed TOML tree
Entry(key, val) == [key |-> key, val |-> val]

\* the file of the package's tests: a string, an integer, a boolean, a
\* float, and a value of a kind the type switch does not list
TreeA ==
    <<Entry("alpha", Native("string", <<"s", "t", "r">>)),
      Entry("beta", Native("int64", 42)),
      Entry("gamma", Native("bool", TRUE)),
      Entry("delta", Native("float64", Float(314159, 5))),
      Entry("when", NativeOther)>>

\* another file, with other values under the same keys
TreeB ==
    <<Entry("alpha", Native("string", <<"2">>)),
      Entry("beta", Native("int64", -7)),
      Entry("gamma", Native("string", <<>>))>>

Keys == {"alpha", "beta", "gamma", "delta", "when", "zeta"}

\* the states of a path: nothing there; a TOML file; a file the parser
\* rejects; a file that cannot be opened; a path whose stat itself fails
Missing == [kind |-> "missing", tree |-> <<>>]

Toml(tree) == [kind |-> "toml", tree |-> tree]

Garbage == [kind |-> "garbage", tree |-> <<>>]

Unreadable == [kind |-> "unreadable", tree |-> <<>>]

StatFails == [kind |-> "staterr", tree |-> <<>>]

FileStates == {Missing, Toml(TreeA), Toml(TreeB), Garbage, Unreadable, StatFails}

\* the state of path p; a path the model does not follow holds nothing
FileAt(files, p) == IF p \in DOMAIN files THEN files[p] ELSE Missing

\* tree.Has(key)
Has(tree, key) == \E i \in 1..Len(tree) : tree[i].key = key

\* tree.Get(key)
Get(tree, key) == tree[CHOOSE i \in 1..Len(tree) : tree[i].key = key].val

\* --------------------------------------------------------------- operations

\* what a method call yields: the context it leaves, the value it returns,
\* the kinds of failure it met, and how many requests it made to the
\* operating system (a path query, a stat, an open)
Result(ctx, ret, fail, io) == [ctx |-> ctx, ret |-> ret, fail |-> fail, io |-> io]

\* an append that keeps the newest entry only
WithErrorsLast(c, errs) ==
    [c EXCEPT !.Errors = IF errs = <<>> THEN <<>> ELSE <<errs[Len(errs)]>>]

\* c.Errors = append(c.Errors, ...), errs being the list so extended
WithErrors(c, errs) == [c EXCEPT !.Errors = errs]

ResolveString(c, list) ==
    LET w == ResolveStringWalk(list, c.Errors)
    IN  Result(WithErrors(c, w.errs), w.ret, w.fail, 0)

ResolveInt(c, list) ==
    LET w == ResolveIntWalk(list, c.Errors, {})
    IN  Result(WithErrors(c, w.errs), w.ret, w.fail, 0)

ResolveFloat64(c, list) ==
    LET w == ResolveFloat64Walk(list, c.Errors, {})
    IN  Result(WithErrors(c, w.errs), w.ret, w.fail, 0)

ResolveBool(c, list) ==
    LET w == ResolveBoolWalk(c, list, c.Errors)
    IN  Result(WithErrors(c, w.errs), w.ret, w.fail, 0)

\* fileExists: os.Stat, with "does not exist" told apart from other errors
fileExists(files, name) ==
    LET f == FileAt(files, name)
    IN  IF f.kind = "missing" THEN [exists |-> FALSE, err |-> FALSE]
        ELSE IF f.kind = "staterr" THEN [exists |-> FALSE, err |-> TRUE]
        ELSE [exists |-> TRUE, err |-> FALSE]

\* Find giving up at the first name whose stat fails
RECURSIVE FindWalkGivingUp(_, _, _, _)
FindWalkGivingUp(files, list, fail, io) ==
    IF list = <<>> THEN [ret |-> EmptyPath, fail |-> fail, io |-> io]
    ELSE IF Head(list) = EmptyPath THEN FindWalkGivingUp(files, Tail(list), fail, io)
    ELSE LET e == fileExists(files, Head(list))
         IN  IF e.err THEN [ret |-> EmptyPath, fail |-> fail \cup {"stat"}, io |-> io + 1]
             ELSE IF e.exists THEN [ret |-> Head(list), fail |-> fail, io |-> io + 1]
             ELSE FindWalkGivingUp(files, Tail(list), fail, io + 1)

\* Find's loop: empty names are skipped, a stat error is printed and the
\* loop goes on, the first name that exists is returned
RECURSIVE FindWalk(_, _, _, _)
FindWalk(files, list, fail, io) ==
    IF list = <<>> THEN [ret |-> EmptyPath, fail |-> fail, io |-> io]
    ELSE IF Head(list) = EmptyPath THEN FindWalk(files, Tail(list), fail, io)
    ELSE LET e == fileExists(files, Head(list))
         IN  IF e.err THEN FindWalk(files, Tail(list), fail \cup {"stat"}, io + 1)
             ELSE IF e.exists THEN [ret |-> Head(list), fail |-> fail, io |-> io + 1]
             ELSE FindWalk(files, Tail(list), fail, io + 1)

Find(c, files, list) ==
    LET w == FindWalk(files, list, {}, 0)
    IN  Result(c, w.ret, w.fail, w.io)

\* a deferred pf.Close() whose error is dropped
ClosedQuiet(r, closeErr) ==
    IF closeErr THEN [r EXCEPT !.fail = @ \cup {"close"}] ELSE r

\* the deferred pf.Close() of Load and loadTOML
Closed(r, closeErr) ==
    IF closeErr
    THEN [r EXCEPT !.ctx.Errors = Append(@, "close"), !.fail = @ \cup {"close"}]
    ELSE r

\* Load which forgets the tree of an earlier load when it fails
LoadClearing(c, files, filename, closeErr) ==
    LET f == FileAt(files, filename)
        d == [c EXCEPT !.fileData = NoTree]
    IN  IF f.kind \in {"missing", "unreadable", "staterr"}
        THEN Result(WithErrors(d, Append(c.Errors, "open")), 0, {"open"}, 1)
        ELSE IF f.kind = "garbage"
        THEN Closed(Result(WithErrors(d, Append(c.Errors, "parse")), 0, {"parse"}, 1),
                    closeErr)
        ELSE Closed(Result([c EXCEPT !.fileData = [loaded |-> TRUE, tree |-> f.tree]],
                           0, {}, 1), closeErr)

\* Load which reports nothing when the file cannot be opened
LoadQuiet(c, files, filename, closeErr) ==
    LET f == FileAt(files, filename)
    IN  IF f.kind \in {"missing", "unreadable", "staterr"}
        THEN Result(c, 0, {"open"}, 1)
        ELSE IF f.kind = "garbage"
        THEN Closed(Result(WithErrors(c, Append(c.Errors, "parse")), 0, {"parse"}, 1),
                    closeErr)
        ELSE Closed(Result([c EXCEPT !.fileData = [loaded |-> TRUE, tree |-> f.tree]],
                           0, {}, 1), closeErr)

\* Load: open, parse, keep the tree; an error is appended and the call
\* returns; the file is closed on the way out once it was opened
Load(c, files, filename, closeErr) ==
    LET f == FileAt(files, filename)
    IN  IF f.kind \in {"missing", "unreadable", "staterr"}
        THEN Result(WithErrors(c, Append(c.Errors, "open")), 0, {"open"}, 1)
        ELSE IF f.kind = "garbage"
        THEN Closed(Result(WithErrors(c, Append(c.Errors, "parse")), 0, {"parse"}, 1),
                    closeErr)
        ELSE Closed(Result([c EXCEPT !.fileData = [loaded |-> TRUE, tree |-> f.tree]],
                           0, {}, 1), closeErr)

\* FindAndLoad going on to the later names when the file found does not load
RECURSIVE FindAndLoadRetrying(_, _, _, _)
FindAndLoadRetrying(c, files, list, closeErr) ==
    LET fn == Find(c, files, list)
        at == CHOOSE i \in 1..Len(list) : list[i] = fn.ret
    IN  IF fn.ret # EmptyPath
        THEN LET l == Load(c, files, fn.ret, closeErr)
             IN  IF l.fail \cap {"open", "parse"} # {} /\ at < Len(list)
                 THEN FindAndLoadRetrying(l.ctx, files,
                                          SubSeq(list, at + 1, Len(list)), closeErr)
                 ELSE Result(l.ctx, fn.ret, fn.fail \cup l.fail, fn.io + l.io)
        ELSE fn

\* FindAndLoad: Find, then Load of what was found
FindAndLoad(c, files, list, closeErr) ==
    LET fn == Find(c, files, list)
    IN  IF fn.ret # EmptyPath
        THEN LET l == Load(c, files, fn.ret, closeErr)
             IN  Result(l.ctx, fn.ret, fn.fail \cup l.fail, fn.io + l.io)
        ELSE fn

\* toString which gives the empty text for an unlisted type and says nothing
toStringQuiet(c, x) ==
    CASE x.type \in {"int64", "int"} -> Result(c, FormatInt(x.v), {}, 0)
      [] x.type = "bool" -> Result(c, FormatBool(x.v), {}, 0)
      [] x.type = "float64" -> Result(c, FormatFloat(x.v), {}, 0)
      [] x.type = "string" -> Result(c, x.v, {}, 0)
      [] OTHER -> Result(c, <<>>, {"coercion"}, 0)

\* toString: the text of a TOML value; a type it does not list adds an
\* error and gives the empty text
toString(c, x) ==
    CASE x.type \in {"int64", "int"} -> Result(c, FormatInt(x.v), {}, 0)
      [] x.type = "bool" -> Result(c, FormatBool(x.v), {}, 0)
      [] x.type = "float64" -> Result(c, FormatFloat(x.v), {}, 0)
      [] x.type = "string" -> Result(c, x.v, {}, 0)
      [] OTHER -> Result(WithErrors(c, Append(c.Errors, "unexpected data type")),
                         <<>>, {"coercion"}, 0)

\* a lookup which answers the empty text for a key the tree does not hold
LookupLoose(c, key) ==
    IF ~c.fileData.loaded THEN Result(c, Absent, {}, 0)
    ELSE IF Has(c.fileData.tree, key)
    THEN LET x == toString(c, Get(c.fileData.tree, key))
         IN  Result(x.ctx, Present(x.ret), x.fail, 0)
    ELSE Result(c, Present(<<>>), {}, 0)

\* the lookup of FromFile, after any loading
Lookup(c, key) ==
    IF ~c.fileData.loaded THEN Result(c, Absent, {}, 0)
    ELSE IF Has(c.fileData.tree, key)
    THEN LET x == toString(c, Get(c.fileData.tree, key))
         IN  Result(x.ctx, Present(x.ret), x.fail, 0)
    ELSE Result(c, Absent, {}, 0)

\* prefsFileName of the lazy revision: the executable's path, or the user's
\* configuration directory and the application name, then FileBase.toml
prefsFileName(c, osFails) ==
    IF c.Location = "RelativeToExecutable"
    THEN IF osFails THEN [path |-> EmptyPath, err |-> TRUE]
         ELSE [path |-> Join(ExecutableFile, <<c.FileBase \o ".toml">>), err |-> FALSE]
    ELSE IF osFails THEN [path |-> EmptyPath, err |-> TRUE]
         ELSE [path |-> Join(ConfigDir, <<c.AppName, c.FileBase \o ".toml">>),
               err |-> FALSE]

\* loadTOML which does not remember that it has tried
loadTOMLForgetful(c, files, osFails, closeErr) ==
    LET pn == prefsFileName(c, osFails)
        f == FileAt(files, pn.path)
    IN  IF c.loadAttempted THEN Result(c, 0, {}, 0)
        ELSE IF pn.err
        THEN Result(WithErrors(c, Append(c.Errors, "path")), 0, {"pathquery"}, 1)
        ELSE IF f.kind \in {"missing", "unreadable", "staterr"}
        THEN Result([c EXCEPT !.Warnings = Append(@, "open")], 0, {"open"}, 2)
        ELSE IF f.kind = "garbage"
        THEN Closed(Result(WithErrors(c, Append(c.Errors, "parse")), 0, {"parse"}, 2),
                    closeErr)
        ELSE Closed(Result([c EXCEPT !.fileData = [loaded |-> TRUE, tree |-> f.tree],
                                     !.loadAttempted = TRUE,
                                     !.PrefsFile = pn.path], 0, {}, 2), closeErr)

\* loadTOML: nothing on a second call; otherwise mark the attempt, work out
\* the name, open (a failure is a warning), parse, keep the tree and the name
loadTOML(c, files, osFails, closeErr) ==
    LET a == [c EXCEPT !.loadAttempted = TRUE]
        pn == prefsFileName(c, osFails)
        f == FileAt(files, pn.path)
    IN  IF c.loadAttempted THEN Result(c, 0, {}, 0)
        ELSE IF pn.err
        THEN Result(WithErrors(a, Append(c.Errors, "path")), 0, {"pathquery"}, 1)
        ELSE IF f.kind \in {"missing", "unreadable", "staterr"}
        THEN Result([a EXCEPT !.Warnings = Append(@, "open")], 0, {"open"}, 2)
        ELSE IF f.kind = "garbage"
        THEN Closed(Result(WithErrors(a, Append(c.Errors, "parse")), 0, {"parse"}, 2),
                    closeErr)
        ELSE Closed(Result([a EXCEPT !.fileData = [loaded |-> TRUE, tree |-> f.tree],
                                     !.PrefsFile = pn.path], 0, {}, 2), closeErr)

\* FromFile of src/config.go: a lookup in whatever Load left
FromFile(c, key) == Lookup(c, key)

\* FromFile of the lazy revision: loadTOML, then the lookup
FromFileLazy(c, files, key, osFails, closeErr) ==
    LET l == loadTOML(c, files, osFails, closeErr)
        x == Lookup(l.ctx, key)
    IN  Result(x.ctx, x.ret, l.fail \cup x.fail, l.io)

\* the wrapped OS queries: the path as a candidate, or an error and nil
UserHomeDir(c, osFails) ==
    IF osFails
    THEN Result(WithErrors(c, Append(c.Errors, "couldn't locate home directory")),
                Absent, {"pathquery"}, 1)
    ELSE Result(c, Present(HomeDir), {}, 1)

UserConfigDir(c, osFails) ==
    IF osFails
    THEN Result(WithErrors(c, Append(c.Errors, "couldn't locate home directory")),
                Absent, {"pathquery"}, 1)
    ELSE Result(c, Present(ConfigDir), {}, 1)

Executable(c, osFails) ==
    IF osFails
    THEN Result(WithErrors(c, Append(c.Errors, "couldn't locate executable")),
                Absent, {"pathquery"}, 1)
    ELSE Result(c, Present(Dir(ExecutableFile)), {}, 1)

\* FileFromExecutable: FileBase.toml next to the running program
FileFromExecutable(c, osFails) ==
    IF osFails
    THEN Result(WithErrors(c, Append(c.Errors, "path")), EmptyPath, {"pathquery"}, 1)
    ELSE Result(c, Join(Dir(ExecutableFile), <<c.FileBase \o ".toml">>), {}, 1)

\* FileFromHome: AppName/FileBase.toml under the user's configuration directory
FileFromHome(c, osFails) ==
    IF osFails
    THEN Result(WithErrors(c, Append(c.Errors, "path")), EmptyPath, {"pathquery"}, 1)
    ELSE Result(c, Join(ConfigDir, <<c.AppName, c.FileBase \o ".toml">>), {}, 1)

\* FromEnv: the variable's value when it is set, empty or not
FromEnv(c, value) == Result(c, value, {}, 1)

\* ------------------------------------------------------------------ inputs

\* the texts candidates are drawn from: empty, not a number and not a
\* boolean, an integer, a number with a point, and the two boolean words
Texts == {<<>>, <<"a">>, <<"2">>, <<"2", ".", "7">>, TextTrue, TextFalse}

Candidates == {Absent} \cup {Present(t) : t \in Texts}

\* all sequences over S of length at most n
RECURSIVE SeqsUpTo(_, _)
SeqsUpTo(S, n) ==
    IF n = 0 THEN {<<>>}
    ELSE LET shorter == SeqsUpTo(S, n - 1)
         IN  shorter \cup {Append(q, x) : q \in {r \in shorter : Len(r) = n - 1}, x \in S}

\* the candidate lists handed to the resolvers
CandidateLists == SeqsUpTo(Candidates, MaxLen)

\* the shorter candidate lists, over fewer texts
ShortLists == SeqsUpTo({Absent, Present(<<"a">>), Present(<<"2">>)}, MaxShort)

\* the values handed to Default, in a row: booleans, ints, strings, and
\* values of types it does not wrap
Natives ==
    <<Native("bool", TRUE), Native("bool", FALSE),
      Native("int", -12), Native("int", -1), Native("int", 0), Native("int", 7),
      Native("int", 42), Native("int", 1000),
      Native("string", <<>>), Native("string", <<"a">>), Native("string", <<"2">>),
      Native("string", <<"2", ".", "7">>), Native("string", TextTrue),
      Native("string", <<" ", "y">>), Native("string", <<"0", "x", "2", "f">>),
      Native("float64", Float(27, 1)), Native("int64", 42), NativeNil, NativeOther>>

\* the one-candidate lists made of a default
DefaultLists == {<<Default(Natives[i])>> : i \in DOMAIN Natives}

\* texts handed to stringToBool: in either case, with blanks around, in one
\* vocabulary or the other or none, and empty
BoolTexts ==
    {TextTrue, TextFalse, <<" ", "T", "R", "U", "E", " ">>, <<"T", "r", "u", "e">>,
     <<"F", "A", "L", "S", "E">>, <<"y">>, <<"Y", " ">>, <<"n", "o">>,
     <<" ", "N", "o">>, <<"t", "r", " ", "u", "e">>, <<"a">>, <<" ">>, <<>>}

\* numerals handed to ResolveInt: with a point, with a base prefix, plain,
\* with an exponent, and one that is no number
IntTexts ==
    {<<"2", ".", "6", "1", "2">>, <<"2", ".", "7">>, <<"-", "2", ".", "7">>,
     <<"1", ".", "9", "9", "9", "9", "9", "9", "9", "9">>, <<"2", ".">>, <<".", "5">>,
     <<"0", "x", "2", "f">>, <<"0", "o", "1", "7">>, <<"0", "1", "7">>,
     <<"4", "2">>, <<"-", "7">>, <<"1", "e", "3">>, <<"a">>}

IntLists == SeqsUpTo({Absent} \cup {Present(t) : t \in IntTexts}, MaxShort)

\* the paths whose state the model follows
UserPrefs == Join(ConfigDir, <<"MyAppName", "config.toml">>)

ExePrefs == Join(ExecutableFile, <<"config.toml">>)

ExeDirPrefs == Join(Dir(ExecutableFile), <<"config.toml">>)

FsPaths == {TmpFile, UserPrefs, ExePrefs, ExeDirPrefs}

\* the lists of names handed to Find and FindAndLoad
PathLists == SeqsUpTo({EmptyPath, TmpFile, UserPrefs}, MaxPaths)

\* the boolean vocabularies a caller may assign: the defaults, the ones of
\* the tests and the example, which add words, and one that replaces them
Vocabularies ==
    {[t |-> <<TextTrue>>, f |-> <<TextFalse>>],
     [t |-> <<TextTrue, <<"y">>>>, f |-> <<TextFalse, <<"n", "o">>>>],
     [t |-> <<<<"y">>>>, f |-> <<<<"n", "o">>>>]}

\* the vocabularies, and one where "y" stands in both lists
BoolVocabularies ==
    Vocabularies \cup {[t |-> <<TextTrue, <<"y">>>>, f |-> <<TextFalse, <<"y">>>>]}

Locations == {"RelativeToUser", "RelativeToExecutable"}

AppNameOf(c) == IF c = "A" THEN "MyAppName" ELSE "Other"

\* ----------------------------------------------------------------- actions

\* no call is under inspection
Idle ==
    [op |-> "idle", c |-> "A", list |-> <<>>, key |-> "", ret |-> 0,
     fail |-> {}, io |-> 0, before |-> New(AppNameOf("A"))]

\* the caller makes its next call once it has looked at the last one, and
\* goes on only while the lists it inspects are short
Ready(c) ==
    /\ last.op = "idle"
    /\ Len(cfg[c].Errors) < MaxErrors
    /\ Len(cfg[c].Warnings) < MaxErrors

\* a call whose errors land in one list common to all the contexts
ApplyShared(c, op, list, key, r) ==
    /\ cfg' = [d \in DOMAIN cfg |->
                  IF d = c THEN r.ctx ELSE [cfg[d] EXCEPT !.Errors = r.ctx.Errors]]
    /\ last' = [op |-> op, c |-> c, list |-> list, key |-> key, ret |-> r.ret,
                fail |-> r.fail, io |-> r.io, before |-> cfg[c]]
    /\ loads' = [loads EXCEPT ![c] = IF op = "FromFile" /\ r.io > 0 THEN @ + 1 ELSE @]
    /\ UNCHANGED <<variant, fs>>

\* the call op(list, key) on context c had result r
Apply(c, op, list, key, r) ==
    /\ cfg' = [cfg EXCEPT ![c] = r.ctx]
    /\ last' = [op |-> op, c |-> c, list |-> list, key |-> key, ret |-> r.ret,
                fail |-> r.fail, io |-> r.io, before |-> cfg[c]]
    /\ loads' = [loads EXCEPT ![c] = IF op = "FromFile" /\ r.io > 0 THEN @ + 1 ELSE @]
    /\ UNCHANGED <<variant, fs>>

\* the caller has looked at the result of its last call
Return ==
    /\ last.op # "idle"
    /\ last' = Idle
    /\ UNCHANGED <<variant, cfg, fs, loads>>

\* conf.TrueStrings = ..., conf.FalseStrings = ..., conf.Location = ...
\* right after New
Configure(c, vocabs, locs) ==
    /\ last.op = "idle"
    /\ cfg[c] = New(AppNameOf(c))
    /\ loads[c] = 0
    /\ \E v \in vocabs, loc \in locs :
           /\ cfg' = [cfg EXCEPT ![c] = [@ EXCEPT !.TrueStrings = v.t,
                                                  !.FalseStrings = v.f,
                                                  !.Location = loc]]
           /\ cfg'[c] # cfg[c]
    /\ UNCHANGED <<variant, fs, last, loads>>

\* lc.Errors = nil, as the tests do between cases
ClearErrors(c) ==
    /\ last.op = "idle"
    /\ cfg[c].Errors # <<>> \/ cfg[c].Warnings # <<>>
    /\ cfg' = [cfg EXCEPT ![c] = [@ EXCEPT !.Errors = <<>>, !.Warnings = <<>>]]
    /\ UNCHANGED <<variant, fs, last, loads>>

\* the file system changes under the program, between two calls
FsChange(paths) ==
    /\ last.op = "idle"
    /\ \E p \in paths, st \in FileStates :
           /\ fs[p] # st
           /\ fs' = [fs EXCEPT ![p] = st]
    /\ UNCHANGED <<variant, cfg, last, loads>>

\* the calls: each draws its arguments, and what the operating system
\* answers, from the given sets
OpResolveString(c, lists) ==
    /\ Ready(c)
    /\ \E list \in lists : Apply(c, "ResolveString", list, "", ResolveString(cfg[c], list))

OpResolveInt(c, lists) ==
    /\ Ready(c)
    /\ \E list \in lists : Apply(c, "ResolveInt", list, "", ResolveInt(cfg[c], list))

OpResolveFloat64(c, lists) ==
    /\ variant = "eager"
    /\ Ready(c)
    /\ \E list \in lists :
           Apply(c, "ResolveFloat64", list, "", ResolveFloat64(cfg[c], list))

OpResolveBool(c, lists) ==
    /\ Ready(c)
    /\ \E list \in lists : Apply(c, "ResolveBool", list, "", ResolveBool(cfg[c], list))

OpFind(c, lists) ==
    /\ variant = "eager"
    /\ Ready(c)
    /\ \E list \in lists : Apply(c, "Find", list, "", Find(cfg[c], fs, list))

OpLoad(c, names) ==
    /\ variant = "eager"
    /\ Ready(c)
    /\ \E filename \in names, closeErr \in BOOLEAN :
           Apply(c, "Load", <<filename>>, "", Load(cfg[c], fs, filename, closeErr))

OpFindAndLoad(c, lists) ==
    /\ variant = "eager"
    /\ Ready(c)
    /\ \E list \in lists, closeErr \in BOOLEAN :
           Apply(c, "FindAndLoad", list, "", FindAndLoad(cfg[c], fs, list, closeErr))

OpFromFile(c) ==
    /\ variant = "eager"
    /\ Ready(c)
    /\ \E key \in Keys : Apply(c, "FromFile", <<>>, key, FromFile(cfg[c], key))

OpFromFileLazy(c) ==
    /\ variant = "lazy"
    /\ Ready(c)
    /\ \E key \in Keys, osFails \in BOOLEAN, closeErr \in BOOLEAN :
           Apply(c, "FromFile", <<>>, key,
                 FromFileLazy(cfg[c], fs, key, osFails, closeErr))

OpFileFromExecutable(c) ==
    /\ variant = "eager"
    /\ Ready(c)
    /\ \E osFails \in BOOLEAN :
           Apply(c, "FileFromExecutable", <<>>, "", FileFromExecutable(cfg[c], osFails))

OpFileFromHome(c) ==
    /\ variant = "eager"
    /\ Ready(c)
    /\ \E osFails \in BOOLEAN :
           Apply(c, "FileFromHome", <<>>, "", FileFromHome(cfg[c], osFails))

OpUserHomeDir(c) ==
    /\ Ready(c)
    /\ \E osFails \in BOOLEAN :
           Apply(c, "UserHomeDir", <<>>, "", UserHomeDir(cfg[c], osFails))

OpUserConfigDir(c) ==
    /\ Ready(c)
    /\ \E osFails \in BOOLEAN :
           Apply(c, "UserConfigDir", <<>>, "", UserConfigDir(cfg[c], osFails))

OpExecutable(c) ==
    /\ Ready(c)
    /\ \E osFails \in BOOLEAN :
           Apply(c, "Executable", <<>>, "", Executable(cfg[c], osFails))

OpFromEnv(c) ==
    /\ Ready(c)
    /\ \E value \in {Absent, Present(<<>>), Present(<<"a">>)} :
           Apply(c, "FromEnv", <<>>, "", FromEnv(cfg[c], value))

OpDefault(c, natives) ==
    /\ Ready(c)
    /\ \E i \in DOMAIN natives :
           Apply(c, "Default", <<natives[i]>>, "",
                 Result(cfg[c], Default(natives[i]),
                        IF natives[i].type \in {"bool", "int", "string"} THEN {}
                        ELSE {"unlisted default"}, 0))

\* stringToBool is handed a string; the record of the call keeps it as the
\* one candidate of its list
OpStringToBool(c, texts) ==
    /\ Ready(c)
    /\ \E bs \in texts :
           Apply(c, "stringToBool", <<Present(bs)>>, "",
                 Result(cfg[c], stringToBool(cfg[c], bs), {}, 0))

\* prefsFileName of the lazy revision, which returns the name and the error
\* and leaves the context alone
OpPrefsFileName(c) ==
    /\ variant = "lazy"
    /\ Ready(c)
    /\ \E osFails \in BOOLEAN :
           LET pn == prefsFileName(cfg[c], osFails)
           IN  Apply(c, "prefsFileName", <<>>, "",
                     Result(cfg[c], pn.path,
                            IF pn.err THEN {"pathquery"} ELSE {}, 1))

\* ----------------------------------------------------------- specifications

\* New for each context in ctxs, in one of the given revisions of the package
InitWith(variants, ctxs) ==
    /\ variant \in variants
    /\ cfg = [c \in ctxs |-> New(AppNameOf(c))]
    /\ fs = [p \in FsPaths |-> Missing]
    /\ last = Idle
    /\ loads = [c \in ctxs |-> 0]

\* the four resolvers on one context with the default vocabularies
InitResolve == InitWith({"eager"}, {"A"})

NextResolve ==
    \/ Return
    \/ ClearErrors("A")
    \/ OpResolveString("A", CandidateLists)
    \/ OpResolveInt("A", CandidateLists)
    \/ OpResolveFloat64("A", CandidateLists)
    \/ OpResolveBool("A", CandidateLists)

SpecResolve == InitResolve /\ [][NextResolve]_vars

\* locating, loading and querying the file, in both revisions, while the
\* files come and go
InitFile == InitWith({"eager", "lazy"}, {"A"})

NextFile ==
    \/ Return
    \/ ClearErrors("A")
    \/ FsChange({TmpFile, UserPrefs})
    \/ OpFind("A", PathLists)
    \/ OpLoad("A", {EmptyPath, TmpFile, UserPrefs})
    \/ OpFindAndLoad("A", PathLists)
    \/ OpFromFile("A")
    \/ OpFromFileLazy("A")

SpecFile == InitFile /\ [][NextFile]_vars

\* every operation of both revisions on one context, the preferences file
\* coming and going
Init == InitWith({"eager", "lazy"}, {"A"})

Next ==
    \/ Return
    \/ ClearErrors("A")
    \/ Configure("A", {[t |-> <<TextTrue, <<"y">>>>, f |-> <<TextFalse, <<"n", "o">>>>]},
                 Locations)
    \/ FsChange({UserPrefs})
    \/ OpResolveString("A", ShortLists)
    \/ OpResolveInt("A", ShortLists)
    \/ OpResolveFloat64("A", ShortLists)
    \/ OpResolveBool("A", ShortLists)
    \/ OpFind("A", PathLists)
    \/ OpLoad("A", {EmptyPath, UserPrefs})
    \/ OpFindAndLoad("A", PathLists)
    \/ OpFromFile("A")
    \/ OpFromFileLazy("A")
    \/ OpFileFromExecutable("A")
    \/ OpFileFromHome("A")
    \/ OpUserHomeDir("A")
    \/ OpUserConfigDir("A")
    \/ OpExecutable("A")
    \/ OpFromEnv("A")
    \/ OpDefault("A", Natives)
    \/ OpStringToBool("A", {TextTrue, <<"a">>})

Spec == Init /\ [][Next]_vars

\* Default and the resolvers on one context, under each vocabulary
InitDefault == InitWith({"eager"}, {"A"})

NextDefault ==
    \/ Return
    \/ ClearErrors("A")
    \/ Configure("A", Vocabularies, {"RelativeToUser"})
    \/ OpDefault("A", Natives)
    \/ OpResolveString("A", DefaultLists)
    \/ OpResolveInt("A", DefaultLists)
    \/ OpResolveBool("A", DefaultLists)

SpecDefault == InitDefault /\ [][NextDefault]_vars

\* ResolveInt alone, over numerals of every form
InitInt == InitWith({"eager", "lazy"}, {"A"})

NextInt ==
    \/ Return
    \/ ClearErrors("A")
    \/ OpResolveInt("A", IntLists)

SpecInt == InitInt /\ [][NextInt]_vars

\* stringToBool and ResolveBool under each vocabulary
InitBool == InitWith({"eager", "lazy"}, {"A"})

NextBool ==
    \/ Return
    \/ ClearErrors("A")
    \/ Configure("A", BoolVocabularies, {"RelativeToUser"})
    \/ OpStringToBool("A", BoolTexts)
    \/ OpResolveBool("A", {<<Present(t)>> : t \in BoolTexts})

SpecBool == InitBool /\ [][NextBool]_vars

\* the names of the default file in both revisions, for either location, as
\* files appear next to the program
InitPath == InitWith({"eager", "lazy"}, {"A"})

NextPath ==
    \/ Return
    \/ ClearErrors("A")
    \/ Configure("A", Vocabularies, Locations)
    \/ FsChange({ExePrefs, ExeDirPrefs})
    \/ OpFileFromExecutable("A")
    \/ OpFileFromHome("A")
    \/ OpLoad("A", {ExeDirPrefs, UserPrefs})
    \/ OpPrefsFileName("A")
    \/ OpFromFileLazy("A")

SpecPath == InitPath /\ [][NextPath]_vars

\* two contexts side by side, their calls interleaved, the tests' file in
\* place and the user's preferences file good or rejected by the parser
InitTwo ==
    /\ variant \in {"eager", "lazy"}
    /\ cfg = [c \in Ctx |-> New(AppNameOf(c))]
    /\ \E st \in {Toml(TreeB), Garbage} :
           fs = [p \in FsPaths |-> IF p = TmpFile THEN Toml(TreeA)
                                   ELSE IF p = UserPrefs THEN st ELSE Missing]
    /\ last = Idle
    /\ loads = [c \in Ctx |-> 0]

NextTwo ==
    \E c \in Ctx :
        \/ Return
        \/ ClearErrors(c)
        \/ Configure(c, {[t |-> <<<<"y">>>>, f |-> <<<<"n", "o">>>>]}, {"RelativeToUser"})
        \/ OpResolveBool(c, {<<>>, <<Present(TextTrue)>>})
        \/ OpLoad(c, {TmpFile, UserPrefs})
        \/ OpFromFile(c)
        \/ OpFromFileLazy(c)

SpecTwo == InitTwo /\ [][NextTwo]_vars

\* ------------------------------------------------------------------ claims

Resolvers == {"ResolveString", "ResolveInt", "ResolveFloat64", "ResolveBool"}

Numeric == {"ResolveInt", "ResolveFloat64"}

\* the context the last call was made on, as the call left it
After == cfg[last.c]

\* the entries the last call added to Errors
Added == SubSeq(After.Errors, Len(last.before.Errors) + 1, Len(After.Errors))

\* Errors before the call is a prefix of Errors after it
ErrorsKept ==
    /\ Len(last.before.Errors) <= Len(After.Errors)
    /\ SubSeq(After.Errors, 1, Len(last.before.Errors)) = last.before.Errors

\* the zero value of a resolver's result type
Zero(op) ==
    CASE op = "ResolveString" -> <<>>
      [] op = "ResolveInt" -> 0
      [] op = "ResolveFloat64" -> Float(0, 0)
      [] op = "ResolveBool" -> FALSE

\* whether text t coerces to the result type of resolver op on context c
Coerces(op, c, t) ==
    CASE op = "ResolveString" -> TRUE
      [] op = "ResolveInt" -> TextToInt(t).ok
      [] op = "ResolveFloat64" -> ParseFloat(t).ok
      [] op = "ResolveBool" -> stringToBool(c, t).ok

\* the coercion of text t by resolver op: its value, the zero value on failure
Coerced(op, c, t) ==
    CASE op = "ResolveString" -> t
      [] op = "ResolveInt" -> IF TextToInt(t).ok THEN TextToInt(t).val ELSE 0
      [] op = "ResolveFloat64" -> IF ParseFloat(t).ok THEN ParseFloat(t).val ELSE Float(0, 0)
      [] op = "ResolveBool" -> stringToBool(c, t).value

\* the candidates a resolver stops at: ResolveString at any present one,
\* ResolveBool at a present non-empty one, the numeric resolvers at a present
\* non-empty one that parses
Decides(op, c, cand) ==
    /\ cand.present
    /\ op # "ResolveString" => cand.text # <<>>
    /\ op \in Numeric => Coerces(op, c, cand.text)

\* the positions of list that satisfy P, and the least of them (0: none)
Positions(list, P(_)) == {i \in 1..Len(list) : P(list[i])}

First(list, P(_)) ==
    IF Positions(list, P) = {} THEN 0
    ELSE CHOOSE i \in Positions(list, P) : \A j \in Positions(list, P) : i <= j

IsPresent(cand) == cand.present

IsTried(cand) == cand.present /\ cand.text # <<>>

LastDecides(cand) == Decides(last.op, last.before, cand)

\* C1 as stated: every resolver returns the coercion of the first present
\* candidate, whatever follows it.
C1_FirstPresentWins ==
    (last.op \in Resolvers /\ First(last.list, IsPresent) # 0)
        => last.ret = Coerced(last.op, last.before,
                              last.list[First(last.list, IsPresent)].text)

\* C1, amended: ResolveString returns the first present candidate, ResolveBool
\* the coercion of the first present non-empty candidate, ResolveInt and
\* ResolveFloat64 the value of the first present non-empty candidate that
\* parses, whatever the later candidates contain; when that candidate coerces,
\* the call adds no error for it or for anything after it.
C1_FirstDecidingWins ==
    (last.op \in Resolvers /\ First(last.list, LastDecides) # 0)
        => LET i == First(last.list, LastDecides)
               t == last.list[i].text
           IN  /\ last.ret = Coerced(last.op, last.before, t)
               /\ ErrorsKept
               /\ (last.op \notin Numeric /\ Coerces(last.op, last.before, t))
                      => After.Errors = last.before.Errors

\* ResolveBool(absent, "false", "true") has returned false without an error.
C1_Witness ==
    /\ last.op = "ResolveBool"
    /\ last.list = <<Absent, Present(TextFalse), Present(TextTrue)>>
    /\ last.ret = FALSE
    /\ After.Errors = last.before.Errors

\* C2 as stated: in every resolver the first present candidate ends the
\* walk; if it does not coerce, the call adds its one error and returns zero.
C2_StopsAtFirstPresent ==
    (/\ last.op \in Resolvers
     /\ First(last.list, IsPresent) # 0
     /\ ~Coerces(last.op, last.before, last.list[First(last.list, IsPresent)].text))
        => /\ last.ret = Zero(last.op)
           /\ Len(Added) = 1
           /\ Added[1] \in {"unrecognized numeric value", "unrecognized bool value"}

\* C2, amended: ResolveBool stops at the first present non-empty candidate:
\* if it matches neither vocabulary the call adds that one error, returns
\* false and consults nothing later.  ResolveInt and ResolveFloat64 add the
\* error of a non-empty candidate that does not parse and go on: they return
\* the value of the next candidate that parses, and the zero value (with the
\* "missing default" error last) only when none does.
C2_StopsOnlyInResolveBool ==
    /\ (/\ last.op = "ResolveBool"
        /\ First(last.list, IsTried) # 0
        /\ ~stringToBool(last.before, last.list[First(last.list, IsTried)].text).ok)
           => /\ last.ret = FALSE
              /\ After.Errors = Append(last.before.Errors, "unrecognized bool value")
    /\ (/\ last.op \in Numeric
        /\ First(last.list, IsTried) # 0
        /\ ~Coerces(last.op, last.before, last.list[First(last.list, IsTried)].text))
           => /\ ErrorsKept
              /\ Len(Added) >= 1
              /\ Added[1] = "unrecognized numeric value"
              /\ IF First(last.list, LastDecides) # 0
                 THEN last.ret = Coerced(last.op, last.before,
                                         last.list[First(last.list, LastDecides)].text)
                 ELSE /\ last.ret = Zero(last.op)
                      /\ Added[Len(Added)] = "missing default int value"

\* ResolveBool has stopped at a word it does not recognise, with a
\* recognised one behind it.
C2_Witness ==
    /\ last.op = "ResolveBool"
    /\ last.list = <<Absent, Present(<<"a">>), Present(TextTrue)>>
    /\ last.ret = FALSE
    /\ Len(After.Errors) = Len(last.before.Errors) + 1

\* C3: ResolveInt and ResolveFloat64 return the value of the first candidate
\* that parses, and Errors grows by exactly one entry for each non-empty
\* candidate before it that does not parse.
C3_SkipsUnparseable ==
    (last.op \in Numeric /\ First(last.list, LastDecides) # 0)
        => LET i == First(last.list, LastDecides)
               bad == {j \in 1..(i - 1) : IsTried(last.list[j])}
           IN  /\ last.ret = Coerced(last.op, last.before, last.list[i].text)
               /\ ErrorsKept
               /\ Len(Added) = Cardinality(bad)
               /\ \A k \in 1..Len(Added) : Added[k] = "unrecognized numeric value"

\* ResolveInt(absent, "a", "2") has returned 2 with exactly one error added.
C3_Witness ==
    /\ last.op = "ResolveInt"
    /\ last.list = <<Absent, Present(<<"a">>), Present(<<"2">>)>>
    /\ last.ret = 2
    /\ Len(After.Errors) = Len(last.before.Errors) + 1

\* C4: a resolver called with no candidate, or with absent candidates only,
\* returns the zero value and leaves Errors one entry longer, the earlier
\* entries in place.
C4_ExhaustionAddsOneError ==
    (last.op \in Resolvers /\ First(last.list, IsPresent) = 0)
        => /\ last.ret = Zero(last.op)
           /\ ErrorsKept
           /\ Len(Added) = 1
           /\ Added[1] \in {"missing default string value", "missing default int value",
                            "missing default bool value"}

\* ResolveFloat64 of two absent candidates on a context that already held an
\* error.
C4_Witness ==
    /\ last.op = "ResolveFloat64"
    /\ last.list = <<Absent, Absent>>
    /\ last.before.Errors # <<>>
    /\ Len(After.Errors) = Len(last.before.Errors) + 1

\* what FromFile answers for each key on context c as it stands
Answers(c) == [k \in Keys |-> Lookup(c, k).ret]

\* the file the last call tried to load, for Load and FindAndLoad
LoadedPath == IF last.op = "Load" THEN last.list[1] ELSE last.ret

\* the last call was a Load or FindAndLoad that opened and parsed a file
Reloads ==
    /\ last.op \in {"Load", "FindAndLoad"}
    /\ FileAt(fs, LoadedPath).kind = "toml"

\* the last call was a Load of a file that cannot be opened or parsed
LoadFails ==
    /\ last.op = "Load"
    /\ FileAt(fs, LoadedPath).kind # "toml"

\* the types toString lists
Supported == {"int64", "int", "bool", "float64", "string"}

\* the last call was a FromFile of a key held with a type toString does not list
Unsupported ==
    /\ last.op = "FromFile"
    /\ After.fileData.loaded
    /\ Has(After.fileData.tree, last.key)
    /\ Get(After.fileData.tree, last.key).type \notin Supported

\* C6: in the lazy revision the file is located, opened and parsed by at most
\* one FromFile call per context; every FromFile call marks the attempt, and a
\* call made after the attempt asks the operating system nothing, leaves the
\* tree as it was and, when the attempt had failed, returns absent and leaves
\* the whole context as it was, whatever the file has become since.
C6_LoadsAtMostOnce ==
    variant = "lazy" =>
        /\ \A c \in DOMAIN cfg : loads[c] <= 1
        /\ last.op = "FromFile" => After.loadAttempted
        /\ (last.op = "FromFile" /\ last.before.loadAttempted) =>
               /\ last.io = 0
               /\ After.fileData = last.before.fileData
               /\ ~last.before.fileData.loaded =>
                      (last.ret = Absent /\ After = last.before)

\* FromFile("alpha") after a failed attempt, when the preferences file has
\* meanwhile become a TOML file holding alpha: absent, and one load counted.
C6_Witness ==
    /\ variant = "lazy"
    /\ last.op = "FromFile"
    /\ last.key = "alpha"
    /\ last.before.loadAttempted
    /\ ~last.before.fileData.loaded
    /\ fs[UserPrefs] = Toml(TreeA)
    /\ last.ret = Absent
    /\ loads["A"] = 1

\* C7 as stated: once a tree is loaded, no operation changes what FromFile
\* answers for any key, Load and FindAndLoad included.
C7_NeverMutated ==
    (last.op # "idle" /\ last.before.fileData.loaded)
        => Answers(After) = Answers(last.before)

\* C7: once a tree is loaded, what FromFile answers for every key is the same
\* after any operation except a Load or FindAndLoad that parses a file, which
\* replaces the tree with the one parsed; a Load or FindAndLoad that fails
\* leaves the tree as it was.
C7_MutatedOnlyByReload ==
    (last.op # "idle" /\ last.before.fileData.loaded)
        => IF Reloads
           THEN After.fileData = [loaded |-> TRUE, tree |-> FileAt(fs, LoadedPath).tree]
           ELSE /\ After.fileData = last.before.fileData
                /\ Answers(After) = Answers(last.before)

\* FindAndLoad finding a file the parser rejects, after the tests' file was
\* loaded: alpha is still answered from the tests' file.
C7_Witness ==
    /\ last.op = "FindAndLoad"
    /\ last.before.fileData = [loaded |-> TRUE, tree |-> TreeA]
    /\ last.ret = TmpFile
    /\ fs[TmpFile] = Garbage
    /\ Lookup(After, "alpha").ret = Present(<<"s", "t", "r">>)

\* C8 as stated: a Load that fails to open or parse adds an error and leaves
\* the context without a tree, FromFile answering absent for every key.
C8_FailedLoadLeavesNoTree ==
    LoadFails
        => /\ Len(After.Errors) > Len(last.before.Errors)
           /\ ~After.fileData.loaded
           /\ \A k \in Keys : Lookup(After, k).ret = Absent

\* C8: a Load that fails to open or parse adds an error, the earlier ones in
\* place, and leaves the tree as it was before the call: FromFile answers
\* absent for every key when no earlier load had succeeded, and what it
\* answered before otherwise.
C8_FailedLoadKeepsTree ==
    LoadFails
        => /\ ErrorsKept
           /\ Len(Added) >= 1
           /\ Added[1] \in {"open", "parse"}
           /\ After.fileData = last.before.fileData
           /\ Answers(After) = Answers(last.before)
           /\ ~last.before.fileData.loaded
                  => \A k \in Keys : Lookup(After, k).ret = Absent

\* Load of a file that cannot be opened, after another file was loaded: one
\* more error, and beta still answered from the loaded file.
C8_Witness ==
    /\ last.op = "Load"
    /\ last.list = <<TmpFile>>
    /\ fs[TmpFile] = Unreadable
    /\ last.before.fileData = [loaded |-> TRUE, tree |-> TreeB]
    /\ Added = <<"open">>
    /\ Lookup(After, "beta").ret = Present(<<"-", "7">>)

\* C9 as stated: FromFile of a key held with an unlisted type adds the
\* "unexpected data type" error and returns nil.
C9_UnsupportedIsAbsent ==
    Unsupported
        => /\ Len(Added) >= 1
           /\ Added[Len(Added)] = "unexpected data type"
           /\ last.ret = Absent

\* C9: FromFile of a key held with an unlisted type adds the "unexpected data
\* type" error, the earlier ones in place, and returns a present candidate
\* holding the empty text.
C9_UnsupportedIsPresentEmpty ==
    Unsupported
        => /\ ErrorsKept
           /\ Len(Added) >= 1
           /\ Added[Len(Added)] = "unexpected data type"
           /\ last.ret = Present(<<>>)

\* FromFile("when") on the tests' file, whose "when" is a date.
C9_Witness ==
    /\ variant = "eager"
    /\ last.op = "FromFile"
    /\ last.key = "when"
    /\ last.before.fileData = [loaded |-> TRUE, tree |-> TreeA]
    /\ last.ret = Present(<<>>)
    /\ Added = <<"unexpected data type">>

\* the kinds of failure an operation may meet
Failures == {"stat", "open", "parse", "close", "pathquery", "coercion", "exhaustion"}

\* the failures that do not reach Errors: a stat error of Find is printed,
\* and the lazy revision keeps a failure to open the file in Warnings
Elsewhere == {"stat"} \cup (IF variant = "lazy" THEN {"open"} ELSE {})

\* the operations that answer with a candidate, and those that answer a name
Providers == {"UserHomeDir", "UserConfigDir", "Executable"}

Locators == {"FileFromExecutable", "FileFromHome"}

\* C5 as stated: whenever an operation meets a stat, open, parse or
\* path-query failure, a coercion failure or exhaustion, Errors is longer
\* after it than before.
C5_EveryFailureInErrors ==
    (last.op # "idle" /\ last.fail \cap Failures # {})
        => Len(After.Errors) > Len(last.before.Errors)

\* C5: every operation returns and keeps the earlier entries of Errors; it
\* leaves Errors longer when it meets an open or parse failure in Load or
\* FindAndLoad, a parse failure in the lazy load, a close or path-query
\* failure, a coercion failure or exhaustion, and the same otherwise.  A stat
\* failure in Find or FindAndLoad adds nothing, and a failure to open the
\* file in the lazy revision adds one entry to Warnings instead.  After
\* exhaustion the result is the zero value, and after a path-query failure
\* it is absent or the empty name.
C5_FailuresInErrorsButStatAndLazyOpen ==
    last.op # "idle" =>
        /\ ErrorsKept
        /\ (last.fail \cap (Failures \ Elsewhere) # {}) => Len(Added) >= 1
        /\ (last.fail \cap (Failures \ Elsewhere) = {}) => Added = <<>>
        /\ IF variant = "lazy" /\ "open" \in last.fail
           THEN After.Warnings = Append(last.before.Warnings, "open")
           ELSE After.Warnings = last.before.Warnings
        /\ (last.op \in Resolvers /\ "exhaustion" \in last.fail)
               => last.ret = Zero(last.op)
        /\ (last.op \in Providers \cup {"FromFile"} /\ "pathquery" \in last.fail)
               => last.ret = Absent
        /\ (last.op \in Locators /\ "pathquery" \in last.fail)
               => last.ret = EmptyPath

\* Load of a file the parser rejects and whose Close fails as well, on a
\* context that already held an error: two more entries.
C5_Witness ==
    /\ last.op = "Load"
    /\ last.fail = {"parse", "close"}
    /\ last.before.Errors # <<>>
    /\ Added = <<"parse", "close">>
    /\ ~After.fileData.loaded

\* the resolver whose result type is the type of native value x
Matching(x) ==
    CASE x.type = "string" -> "ResolveString"
      [] x.type = "int" -> "ResolveInt"
      [] x.type = "bool" -> "ResolveBool"
      [] OTHER -> "none"

\* C10: in any context, the matching resolver applied to Default(x) alone
\* returns x, for x a string, an int or a bool, and adds no error.
C10_DefaultRoundTrips ==
    \A i \in DOMAIN Natives :
        (last.op = Matching(Natives[i]) /\ last.list = <<Default(Natives[i])>>)
            => /\ last.ret = Natives[i].v
               /\ Added = <<>>

\* a text is a decimal numeral: digits, after "-" for a negative number, and
\* no leading zero but in "0"
IsDecimal(t) ==
    LET body == IF t # <<>> /\ Head(t) = "-" THEN Tail(t) ELSE t
    IN  /\ body # <<>>
        /\ AllDigits(body)
        /\ Len(body) > 1 => Head(body) # "0"

\* C11: Default(x) returns a present candidate exactly when x is a bool, an
\* int or a string: "true" or "false" for a bool, the decimal numeral of the
\* int, the string itself; for nil, a float64, an int64 or any other value it
\* returns absent; and it leaves the context, Errors included, as it was.
C11_DefaultWraps ==
    last.op = "Default" =>
        LET x == last.list[1]
        IN  /\ After = last.before
            /\ last.ret.present <=> x.type \in {"bool", "int", "string"}
            /\ x.type = "bool"
                   => last.ret.text = (IF x.v THEN TextTrue ELSE TextFalse)
            /\ x.type = "int"
                   => /\ IsDecimal(last.ret.text)
                      /\ ParseInt(last.ret.text) = [ok |-> TRUE, val |-> x.v]
            /\ x.type = "string" => last.ret.text = x.v
            /\ x.type \notin {"bool", "int", "string"} => last.ret = Absent

\* Default of an int64 on a context that holds an error: absent, and the
\* error list as it was.
C11_Witness ==
    /\ last.op = "Default"
    /\ last.list[1].type = "int64"
    /\ last.ret = Absent
    /\ last.before.Errors # <<>>
    /\ After.Errors = last.before.Errors

\* the decimal m / 10^e truncated toward zero
Trunc(f) ==
    IF f.m < 0 THEN -((-f.m) \div Pow(10, f.e)) ELSE f.m \div Pow(10, f.e)

\* C12: ResolveInt of one present non-empty text: with a decimal point, the
\* number it denotes truncated toward zero, never rounded; without one, the
\* integer it denotes with its base prefix; and no error after a successful
\* parse.
C12_TruncatesNeverRounds ==
    (last.op = "ResolveInt" /\ Len(last.list) = 1 /\ last.list[1].present
        /\ last.list[1].text # <<>>)
        => LET t == last.list[1].text
           IN  /\ (Contains(t, ".") /\ ParseFloat(t).ok)
                      => (last.ret = Trunc(ParseFloat(t).val) /\ Added = <<>>)
               /\ (~Contains(t, ".") /\ ParseInt(t).ok)
                      => (last.ret = ParseInt(t).val /\ Added = <<>>)
               /\ t = <<"2", ".", "6", "1", "2">> => last.ret = 2
               /\ t = <<"2", ".", "7">> => last.ret = 2
               /\ t = <<"-", "2", ".", "7">> => last.ret = -2
               /\ t = <<"0", "x", "2", "f">> => last.ret = 47

\* text t, its surrounding blanks and the case of its letters set aside, is
\* one of the words of vocabulary S
InVocabulary(t, S) == \E i \in DOMAIN S : EqualFold(TrimSpace(t), S[i])

\* C13: stringToBool(s) answers (true, ok) when s, trimmed and whatever its
\* case, is a member of TrueStrings; otherwise (false, ok) when it is a member
\* of FalseStrings; otherwise (false, not ok); a text in both lists is true;
\* and the context, Errors included, is left as it was.
C13_StringToBool ==
    last.op = "stringToBool" =>
        LET s == last.list[1].text
            c == last.before
        IN  /\ After = c
            /\ last.ret =
                   (IF InVocabulary(s, c.TrueStrings) THEN [value |-> TRUE, ok |-> TRUE]
                    ELSE IF InVocabulary(s, c.FalseStrings)
                    THEN [value |-> FALSE, ok |-> TRUE]
                    ELSE [value |-> FALSE, ok |-> FALSE])
            /\ (c.TrueStrings[1] = TextTrue
                    /\ s \in {TextTrue, <<" ", "T", "R", "U", "E", " ">>,
                              <<"T", "r", "u", "e">>})
                   => last.ret = [value |-> TRUE, ok |-> TRUE]
            /\ s \in {<<"a">>, <<" ">>, <<>>, <<"t", "r", " ", "u", "e">>}
                   => last.ret = [value |-> FALSE, ok |-> FALSE]

\* stringToBool("Y ") where "y" stands in both TrueStrings and FalseStrings.
C13_Witness ==
    /\ last.op = "stringToBool"
    /\ last.list[1].text = <<"Y", " ">>
    /\ InVocabulary(<<"y">>, last.before.TrueStrings)
    /\ InVocabulary(<<"y">>, last.before.FalseStrings)
    /\ last.ret = [value |-> TRUE, ok |-> TRUE]

\* the value the tree of the last FromFile call holds under the key, when it
\* holds one
Held == Get(After.fileData.tree, last.key)

HoldsKey == After.fileData.loaded /\ Has(After.fileData.tree, last.key)

\* what FromFile must answer: absent without a tree or without the key; the
\* string as it is, the integer as a decimal numeral, the boolean as "true"
\* or "false"
AnswersCanonically ==
    /\ ~HoldsKey => last.ret = Absent
    /\ (HoldsKey /\ Held.type = "string") => last.ret = Present(Held.v)
    /\ (HoldsKey /\ Held.type \in {"int64", "int"})
           => /\ last.ret.present
              /\ IsDecimal(last.ret.text)
              /\ ParseInt(last.ret.text) = [ok |-> TRUE, val |-> Held.v]
    /\ (HoldsKey /\ Held.type = "bool")
           => last.ret = Present(IF Held.v THEN TextTrue ELSE TextFalse)

\* C14 as stated: FromFile answers so and, in each of these cases, leaves
\* Errors as it was.
C14_LookupLeavesErrors ==
    (last.op = "FromFile" /\ (HoldsKey => Held.type \in {"string", "int64", "int", "bool"}))
        => (AnswersCanonically /\ Added = <<>>)

\* C14: FromFile answers so; it leaves Errors as it was in the revision that
\* loads with Load, and in the lazy revision once the load has been
\* attempted; the call of the lazy revision that makes the attempt may add
\* the errors of the load (path query, parse, close) and nothing else, the
\* earlier entries in place.
C14_LookupLeavesErrorsAfterLoad ==
    (last.op = "FromFile" /\ (HoldsKey => Held.type \in {"string", "int64", "int", "bool"}))
        => /\ AnswersCanonically
           /\ ErrorsKept
           /\ (variant = "eager" \/ last.before.loadAttempted) => After = last.before
           /\ \A i \in DOMAIN Added : Added[i] \in {"path", "parse", "close"}

\* the first FromFile of the lazy revision when the preferences file is one
\* the parser rejects: absent, and the parse error in Errors.
C14_Witness ==
    /\ variant = "lazy"
    /\ last.op = "FromFile"
    /\ ~last.before.loadAttempted
    /\ fs[UserPrefs] = Garbage
    /\ last.ret = Absent
    /\ "parse" \in last.fail
    /\ Len(Added) >= 1

\* a name Find can return: not empty, and os.Stat succeeds on it
Qualifies(p) == p # EmptyPath /\ FileAt(fs, p).kind \notin {"missing", "staterr"}

\* C15: FindAndLoad returns what Find returns for the same list; when that is
\* the empty name the context is left as it was; otherwise the context is
\* left as Load of the name found leaves it, and when that file does not
\* load the name is returned all the same and the tree stays as it was,
\* whatever the later names hold.
C15_FindThenLoad ==
    last.op = "FindAndLoad" =>
        /\ last.ret = Find(last.before, fs, last.list).ret
        /\ last.ret = (IF First(last.list, Qualifies) = 0 THEN EmptyPath
                       ELSE last.list[First(last.list, Qualifies)])
        /\ last.ret = EmptyPath => After = last.before
        /\ last.ret # EmptyPath
               => \E closeErr \in BOOLEAN :
                      After = Load(last.before, fs, last.ret, closeErr).ctx
        /\ (last.ret # EmptyPath /\ FileAt(fs, last.ret).kind # "toml")
               => /\ After.fileData = last.before.fileData
                  /\ Len(Added) >= 1

\* FindAndLoad of two names, the first a file the parser rejects and the
\* second a good one: the first is returned and nothing is loaded.
C15_Witness ==
    /\ last.op = "FindAndLoad"
    /\ last.list = <<TmpFile, UserPrefs>>
    /\ fs[TmpFile] = Garbage
    /\ fs[UserPrefs] = Toml(TreeA)
    /\ last.ret = TmpFile
    /\ ~After.fileData.loaded
    /\ Added[1] = "parse"

\* C16: Find returns the first name of the list that is not empty and exists;
\* empty names and names whose stat fails are passed over; the empty name is
\* returned when no name qualifies; and the context, its tree included, is
\* left as it was.
C16_FindFirstExisting ==
    last.op = "Find" =>
        /\ last.ret = (IF First(last.list, Qualifies) = 0 THEN EmptyPath
                       ELSE last.list[First(last.list, Qualifies)])
        /\ After = last.before

\* Find of two names on a context with a tree, the stat of the first failing
\* and the second existing: the second is returned.
C16_Witness ==
    /\ last.op = "Find"
    /\ last.list = <<TmpFile, UserPrefs>>
    /\ fs[TmpFile] = StatFails
    /\ fs[UserPrefs] = Unreadable
    /\ last.before.fileData.loaded
    /\ last.ret = UserPrefs

\* <user config dir>/<AppName>/<FileBase>.toml
UserPath(c) == ConfigDir \o <<c.AppName, c.FileBase \o ".toml">>

\* <directory of the running executable>/<FileBase>.toml
ExecutablePath(c) == <<"opt", "app", c.FileBase \o ".toml">>

\* C17: the default file's name is <user config dir>/<AppName>/<FileBase>.toml
\* relative to the user, and <directory of the executable>/<FileBase>.toml
\* relative to the executable, from FileFromHome and FileFromExecutable and
\* from prefsFileName of the lazy revision, whenever the path query succeeds;
\* and that is the name the lazy load records.
C17_DefaultPath ==
    /\ (last.op = "FileFromHome" /\ last.fail = {})
           => last.ret = UserPath(last.before)
    /\ (last.op = "FileFromExecutable" /\ last.fail = {})
           => last.ret = ExecutablePath(last.before)
    /\ (last.op = "prefsFileName" /\ last.fail = {})
           => last.ret = (IF last.before.Location = "RelativeToExecutable"
                          THEN ExecutablePath(last.before)
                          ELSE UserPath(last.before))
    /\ (variant = "lazy" /\ last.op = "FromFile" /\ ~last.before.loadAttempted
            /\ After.fileData.loaded)
           => After.PrefsFile = (IF last.before.Location = "RelativeToExecutable"
                                 THEN ExecutablePath(last.before)
                                 ELSE UserPath(last.before))

\* the operations that load the file
Loaders == {"Load", "FindAndLoad", "FromFile"}

\* C18: every operation leaves the earlier entries of Errors in place, in
\* their order, and leaves AppName, FileBase, Location, TrueStrings and
\* FalseStrings as they were; only Load, FindAndLoad and the FromFile of the
\* lazy revision change anything else, and FromFile only in the call that
\* attempts the load.
C18_OnlyErrorsAndLoad ==
    last.op # "idle" =>
        /\ ErrorsKept
        /\ After.AppName = last.before.AppName
        /\ After.FileBase = last.before.FileBase
        /\ After.Location = last.before.Location
        /\ After.TrueStrings = last.before.TrueStrings
        /\ After.FalseStrings = last.before.FalseStrings
        /\ (last.op \notin Loaders
                \/ (last.op = "FromFile" /\ (variant = "eager" \/ last.before.loadAttempted)))
               => [After EXCEPT !.Errors = last.before.Errors] = last.before

\* Load of a file that does not parse, on a context with other vocabularies
\* and location than New's and an error already: the error stays first.
C18_Witness ==
    /\ last.op = "Load"
    /\ last.before.Location = "RelativeToExecutable"
    /\ last.before.TrueStrings # <<TextTrue>>
    /\ Len(last.before.Errors) = 1
    /\ Len(After.Errors) = 2
    /\ After.Errors[1] = last.before.Errors[1]
    /\ After.Errors[1] # After.Errors[2]

\* C19: a call on one context leaves every other context as it was, its
\* Errors, tree, load-attempted flag and vocabularies included, and leaves
\* its own context as the call alone makes it from that context's state and
\* the files, whatever calls the other contexts have had.
C19_NoSharedState ==
    [][last'.op # "idle" =>
          /\ \A d \in DOMAIN cfg \ {last'.c} : cfg'[d] = cfg[d] /\ loads'[d] = loads[d]
          /\ last'.before = cfg[last'.c]
          /\ last'.op = "ResolveBool"
                 => cfg'[last'.c] = ResolveBool(cfg[last'.c], last'.list).ctx
          /\ last'.op = "Load"
                 => \E closeErr \in BOOLEAN :
                        cfg'[last'.c] = Load(cfg[last'.c], fs, last'.list[1], closeErr).ctx
          /\ (last'.op = "FromFile" /\ variant = "eager")
                 => cfg'[last'.c] = FromFile(cfg[last'.c], last'.key).ctx
          /\ (last'.op = "FromFile" /\ variant = "lazy")
                 => \E osFails \in BOOLEAN, closeErr \in BOOLEAN :
                        cfg'[last'.c] =
                            FromFileLazy(cfg[last'.c], fs, last'.key, osFails, closeErr).ctx
      ]_vars

\* Load of the tests' file on A with no error, while B, under other
\* vocabularies, holds an error and no tree.
C19_Witness ==
    /\ last.op = "Load"
    /\ last.c = "A"
    /\ cfg["A"].fileData.loaded
    /\ cfg["A"].Errors = <<>>
    /\ ~cfg["B"].fileData.loaded
    /\ cfg["B"].Errors # <<>>
    /\ cfg["B"].TrueStrings # cfg["A"].TrueStrings

\* a present candidate holding the empty text
IsBlank(cand) == cand.present /\ cand.text = <<>>

\* the list with absent in the place of each such candidate
Blanked(list) == [i \in DOMAIN list |-> IF IsBlank(list[i]) THEN Absent ELSE list[i]]

\* the resolver named op
ResolveBy(op, c, list) ==
    CASE op = "ResolveString" -> ResolveString(c, list)
      [] op = "ResolveInt" -> ResolveInt(c, list)
      [] op = "ResolveFloat64" -> ResolveFloat64(c, list)
      [] op = "ResolveBool" -> ResolveBool(c, list)

\* C20: ResolveInt, ResolveFloat64 and ResolveBool return the same value and
\* leave the same context whether a candidate is present with the empty
\* text or absent; a list of such candidates only gives the zero value and
\* exactly one "missing default" error.  ResolveString returns the empty text
\* of the first present candidate and adds no error.
C20_EmptyIsSkipped ==
    /\ (last.op \in Resolvers \ {"ResolveString"})
           => /\ last.ret = ResolveBy(last.op, last.before, Blanked(last.list)).ret
              /\ After = ResolveBy(last.op, last.before, Blanked(last.list)).ctx
              /\ (\A i \in DOMAIN last.list : ~last.list[i].present \/ IsBlank(last.list[i]))
                     => /\ last.ret = Zero(last.op)
                        /\ Len(Added) = 1
                        /\ Added[1] \in {"missing default int value",
                                         "missing default bool value"}
    /\ (last.op = "ResolveString" /\ First(last.list, IsPresent) # 0)
           => (IsBlank(last.list[First(last.list, IsPresent)])
                   => (last.ret = <<>> /\ Added = <<>>))

\* ResolveInt of an empty text, an absent candidate and "2": 2 and no error.
C20_Witness ==
    /\ last.op = "ResolveInt"
    /\ last.list = <<Present(<<>>), Absent, Present(<<"2">>)>>
    /\ last.ret = 2
    /\ Added = <<>>

====
